---- MODULE Spec2Model ----
(***************************************************************************)
(* Model of the tracing layer of cluster-api:                              *)
(*   - util/tracing/runtime_client.go : tracingClient, tracingStatusWriter *)
(*   - util/tracing (annotation file) : AddTraceAnnotation                 *)
(*   - cmd/clusterctl/cmd/move.go     : runMove                            *)
(* Three specifications share the module: Spec (the tracing client),       *)
(* SpecStamp (AddTraceAnnotation) and SpecMove (runMove).                  *)
(***************************************************************************)
EXTENDS Integers, Sequences, FiniteSets, TLC

VARIABLES
    scheme,         \* tracingClient.scheme: "nil" or "scheme"
    calls,          \* the activation record of each invocation in progress
    spans,          \* the spans of the invocations in progress, by span id
    tracer,         \* the tracer's counts of spans started and finished
    entered,        \* invocations of decorated methods so far
    objs,           \* the caller's []unstructured.Unstructured
    heap,           \* the maps the Unstructured values point to
    stamp,          \* the activation record of AddTraceAnnotation
    encodeCalls,    \* calls of GenerateEmbeddableSpanContext so far
    stampRuns,      \* completed calls of AddTraceAnnotation
    mo,             \* cmd.mo, the move options set from the flags
    cfgFile,        \* cmd.cfgFile
    move,           \* the activation record of runMove
    newCalls,       \* calls of client.New so far
    moveCalls,      \* the MoveOptions of every call of c.Move so far
    moveRuns        \* completed calls of runMove

tvars == <<scheme, calls, spans, tracer, entered>>
svars == <<objs, heap, stamp, encodeCalls, stampRuns>>
mvars == <<mo, cfgFile, move, newCalls, moveCalls, moveRuns>>
vars == <<tvars, svars, mvars>>

(***************************************************************************)
(* Bounds                                                                  *)
(***************************************************************************)
MaxCalls == 2       \* invocations of decorated methods over a run
MaxInFlight == 2    \* invocations in progress at the same time

CallIds == 1..MaxInFlight

(***************************************************************************)
(* Values the callers pass in                                              *)
(***************************************************************************)
NilErr == "nil"
DelegateErrors == {"conflict"}
DelegateResults == {NilErr} \cup DelegateErrors

NoSpan == 0
\* context.Context: the span it carries and its deadline
NoCtx == [span |-> NoSpan, deadline |-> ""]
RootCtxs == {[span |-> NoSpan, deadline |-> "d1"]}

EmptyGVK == [group |-> "", version |-> "", kind |-> ""]
ClusterGVK == [group |-> "cluster.x-k8s.io", version |-> "v1alpha3", kind |-> "Cluster"]
StatusGVK == [group |-> "", version |-> "v1", kind |-> "Status"]
VersionOnlyGVK == [group |-> "", version |-> "v1", kind |-> ""]
StatusInternalGVK == [group |-> "", version |-> "__internal", kind |-> "Status"]

\* runtime.Object values: the kind the object declares itself, whether
\* meta.Accessor succeeds on it, its namespace/name and its Go type.
\* StatusObj has a TypeMeta with an apiVersion and no kind.
ClusterObj == [gotype |-> "Cluster", gvk |-> ClusterGVK, metaOK |-> TRUE,
               ns |-> "ns1", name |-> "name1"]
UnknownObj == [gotype |-> "Unknown", gvk |-> EmptyGVK, metaOK |-> TRUE,
               ns |-> "", name |-> "name2"]
StatusObj == [gotype |-> "Status", gvk |-> VersionOnlyGVK, metaOK |-> FALSE,
              ns |-> "", name |-> ""]
Objs == {ClusterObj, UnknownObj, StatusObj}

\* client.ObjectKey
NoKey == [ns |-> "", name |-> ""]
Keys == {[ns |-> "ns1", name |-> "name1"], [ns |-> "", name |-> "name2"]}

\* client.Patch: Data(obj) yields the payload or an error
NoPatch == [dataOK |-> FALSE, data |-> "", type |-> ""]
Patches == {[dataOK |-> TRUE, data |-> "{\"spec\":{}}", type |-> "merge"],
            [dataOK |-> FALSE, data |-> "", type |-> "merge"]}

\* the variadic options
Opts == {<<"opt1">>}

(***************************************************************************)
(* Helpers of runtime_client.go                                            *)
(***************************************************************************)
\* schema.GroupVersionKind.Empty and .String
GvkEmpty(gvk) == gvk.group = "" /\ gvk.version = "" /\ gvk.kind = ""
GvkString(gvk) == gvk.group \o "/" \o gvk.version \o ", Kind=" \o gvk.kind

\* a String that leaves the namespace out
KeyStringNameOnly(key) == key.name

\* types.NamespacedName.String
KeyString(key) == key.ns \o "/" \o key.name

\* runtime.Scheme.ObjectKinds: the kinds a Go type is registered under
\* (none, with an error, for a type the scheme does not know)
ObjectKinds(obj) ==
    CASE obj.gotype = "Cluster" -> <<ClusterGVK>>
      [] obj.gotype = "Status" -> <<StatusGVK, StatusInternalGVK>>
      [] OTHER -> <<>>

\* ot.Span.SetTag, LogFields; late counts the writes made after Finish
Late(sp) == IF sp.finished > 0 THEN 1 ELSE 0
SetTag(sp, k, v) ==
    [sp EXCEPT !.tags = Append(@, [key |-> k, value |-> v]), !.late = @ + Late(sp)]
LogFields(sp, k, v) ==
    [sp EXCEPT !.logs = Append(@, [key |-> k, value |-> v]), !.late = @ + Late(sp)]

\* a setObjectTags that looks at the kind alone
setObjectTagsKindOnly(sp, obj) ==
    LET s1 == IF obj.gvk.kind # ""
              THEN SetTag(sp, "objectKind", GvkString(obj.gvk))
              ELSE sp
    IN IF obj.metaOK
       THEN SetTag(s1, "objectKey", obj.ns \o "/" \o obj.name)
       ELSE s1
setObjectTags(sp, obj) ==
    LET s1 == IF ~GvkEmpty(obj.gvk)
              THEN SetTag(sp, "objectKind", GvkString(obj.gvk))
              ELSE sp
    IN IF obj.metaOK
       THEN SetTag(s1, "objectKey", obj.ns \o "/" \o obj.name)
       ELSE s1

RECURSIVE TagKinds(_, _)
TagKinds(sp, gvks) ==
    IF gvks = <<>> THEN sp
    ELSE TagKinds(SetTag(sp, "objectKind", GvkString(Head(gvks))), Tail(gvks))

\* a setBlankObjectTags that falls back to the kind the object declares
setBlankObjectTagsDeclared(sch, sp, obj) ==
    IF sch # "nil" THEN TagKinds(sp, ObjectKinds(obj)) ELSE setObjectTags(sp, obj)

\* a setBlankObjectTags that also tags the key of the object it is given
setBlankObjectTagsKeyed(sch, sp, obj) ==
    LET s1 == IF sch # "nil" THEN TagKinds(sp, ObjectKinds(obj)) ELSE sp
    IN IF obj.metaOK
       THEN SetTag(s1, "objectKey", obj.ns \o "/" \o obj.name)
       ELSE s1

setBlankObjectTags(sch, sp, obj) ==
    IF sch # "nil" THEN TagKinds(sp, ObjectKinds(obj)) ELSE sp

\* a Patch that logs the payload without looking at the error of Data
LogPatchUnchecked(sp, patch) == LogFields(sp, "patch", patch.data)

\* the patch payload logged by Patch: patch.Data(obj) when it succeeds
LogPatch(sp, patch) ==
    IF patch.dataOK THEN LogFields(sp, "patch", patch.data) ELSE sp

\* a traceError that swallows the error
traceErrorSwallow(sp, err) ==
    [sp  |-> IF err # NilErr
             THEN LogFields([sp EXCEPT !.error = TRUE, !.late = @ + Late(sp)], "error", err)
             ELSE sp,
     err |-> NilErr]

\* a traceError that flags the span without logging the error
traceErrorNoLog(sp, err) ==
    [sp  |-> IF err # NilErr THEN [sp EXCEPT !.error = TRUE, !.late = @ + Late(sp)] ELSE sp,
     err |-> err]

\* traceError: the span after the call, and the value it returns
traceError(sp, err) ==
    [sp  |-> IF err # NilErr
             THEN LogFields([sp EXCEPT !.error = TRUE, !.late = @ + Late(sp)], "error", err)
             ELSE sp,
     err |-> err]

\* ot.StartSpanFromContext: the new span is a child of the span on ctx (a
\* root span when ctx carries none); the returned context carries the new span
NoSpanRec == [name |-> "", parent |-> NoSpan, tags |-> <<>>, error |-> FALSE,
              logs |-> <<>>, finished |-> 0, late |-> 0]
\* a start that ignores the span on ctx
StartSpanRoot(ctx, name, tags) ==
    [name |-> name, parent |-> NoSpan, tags |-> tags, error |-> FALSE,
     logs |-> <<>>, finished |-> 0, late |-> 0]
StartSpan(ctx, name, tags) ==
    [name |-> name, parent |-> ctx.span, tags |-> tags, error |-> FALSE,
     logs |-> <<>>, finished |-> 0, late |-> 0]
\* a derived context that is detached from the caller's: the span on a
\* background context
ContextWithSpanDetached(ctx, id) == [span |-> id, deadline |-> ""]
ContextWithSpan(ctx, id) == [ctx EXCEPT !.span = id]

\* ot.Span.Finish
FinishSpan(sp) == [sp EXCEPT !.finished = @ + 1]

(***************************************************************************)
(* The decorated methods                                                   *)
(***************************************************************************)
BlankOps == {"Get", "List", "DeleteAllOf"}
PatchOps == {"Patch"}

IdleCall == [pc |-> "idle", target |-> "", op |-> "", ctx |-> NoCtx,
             key |-> NoKey, obj |-> UnknownObj, patch |-> NoPatch, opts |-> <<>>,
             sp |-> NoSpan, dctx |-> NoCtx, delegated |-> <<>>,
             err |-> NilErr, ret |-> NilErr]

\* a status writer that names its spans as the client does
SpanNameClient(target, op) == "k8s." \o op

\* span name of a method: "k8s.Get", ..., "k8s.Status.Update", "k8s.Status.Patch"
SpanName(target, op) ==
    IF target = "StatusWriter" THEN "k8s.Status." \o op ELSE "k8s." \o op

\* the contexts a caller starts from carry no span
CallerCtxs == RootCtxs

\* a caller that got a result looks at it before the next call or return
\* is scheduled
NoPendingResult == \A d \in CallIds : calls[d].pc # "returned"

\* a caller takes the first free activation record
FreeSlot(c, pc) ==
    /\ NoPendingResult
    /\ entered < MaxCalls
    /\ calls[c].pc = pc
    /\ \A d \in CallIds : d < c => calls[d].pc # pc

\* the statements between the deferred Finish and the delegate call:
\* c.setBlankObjectTags(sp, obj) for Get, List, DeleteAllOf; setObjectTags(sp, obj)
\* for the methods that take the object itself; for the two Patch methods also
\* if data, err := patch.Data(obj); err == nil { sp.LogFields(otlog.String("patch", ...)) }
TagSpan(sch, sp, r) ==
    LET tagged == IF r.target = "Client" /\ r.op \in BlankOps
                  THEN setBlankObjectTags(sch, sp, r.obj)
                  ELSE setObjectTags(sp, r.obj)
    IN IF r.op \in PatchOps THEN LogPatch(tagged, r.patch) ELSE tagged

\* the arguments of c.Client.<Op>(ctx, ...) / s.StatusWriter.<Op>(ctx, ...)
DelegateCall(r) ==
    [target |-> r.target, op |-> r.op, ctx |-> r.dctx, key |-> r.key,
     obj |-> r.obj, patch |-> r.patch, opts |-> r.opts]

\* a decorator that calls the wrapped client a second time
DelegateCallsRetry(r) == <<DelegateCall(r), DelegateCall(r)>>

\* the calls of the wrapped client one invocation makes
DelegateCalls(r) == <<DelegateCall(r)>>

\* A decorated method up to its call of the wrapped client:
\*   sp, ctx := ot.StartSpanFromContext(ctx, name, tags...); defer sp.Finish()
\*   <tagging statements>; c.Client.<Op>(ctx, ...)
\* The span is local to the invocation until Finish, so the statements run
\* as one step; the method then waits for the wrapped client.
Enter(c, target, op, ctx, key, obj, patch, opts, tags) ==
    LET r == [pc |-> "indelegate", target |-> target, op |-> op, ctx |-> ctx,
              key |-> key, obj |-> obj, patch |-> patch, opts |-> opts, sp |-> c,
              dctx |-> ContextWithSpan(ctx, c), delegated |-> <<>>,
              err |-> NilErr, ret |-> NilErr]
    IN /\ entered' = entered + 1
       /\ tracer' = [tracer EXCEPT !.started = @ + 1]
       /\ spans' = [spans EXCEPT ![c] =
                       TagSpan(scheme, StartSpan(ctx, SpanName(target, op), tags), r)]
       /\ calls' = [calls EXCEPT ![c] = [r EXCEPT !.delegated = DelegateCalls(r)]]
       /\ UNCHANGED <<scheme, svars, mvars>>

Get(c) ==
    /\ FreeSlot(c, "idle")
    /\ \E ctx \in CallerCtxs, key \in Keys, obj \in Objs :
        Enter(c, "Client", "Get", ctx, key, obj, NoPatch, <<>>,
              <<[key |-> "objectKey", value |-> KeyString(key)]>>)

List(c) ==
    /\ FreeSlot(c, "idle")
    /\ \E ctx \in CallerCtxs, obj \in Objs, opts \in Opts :
        Enter(c, "Client", "List", ctx, NoKey, obj, NoPatch, opts, <<>>)

Create(c) ==
    /\ FreeSlot(c, "idle")
    /\ \E ctx \in CallerCtxs, obj \in Objs, opts \in Opts :
        Enter(c, "Client", "Create", ctx, NoKey, obj, NoPatch, opts, <<>>)

Delete(c) ==
    /\ FreeSlot(c, "idle")
    /\ \E ctx \in CallerCtxs, obj \in Objs, opts \in Opts :
        Enter(c, "Client", "Delete", ctx, NoKey, obj, NoPatch, opts, <<>>)

Update(c) ==
    /\ FreeSlot(c, "idle")
    /\ \E ctx \in CallerCtxs, obj \in Objs, opts \in Opts :
        Enter(c, "Client", "Update", ctx, NoKey, obj, NoPatch, opts, <<>>)

Patch(c) ==
    /\ FreeSlot(c, "idle")
    /\ \E ctx \in CallerCtxs, obj \in Objs, patch \in Patches, opts \in Opts :
        Enter(c, "Client", "Patch", ctx, NoKey, obj, patch, opts, <<>>)

DeleteAllOf(c) ==
    /\ FreeSlot(c, "idle")
    /\ \E ctx \in CallerCtxs, obj \in Objs, opts \in Opts :
        Enter(c, "Client", "DeleteAllOf", ctx, NoKey, obj, NoPatch, opts, <<>>)

\* tracingClient.Status: returns a tracingStatusWriter around the wrapped
\* client's status writer; no span, no write
Status(c) ==
    /\ FreeSlot(c, "idle")
    /\ calls' = [calls EXCEPT ![c].pc = "writer", ![c].target = "StatusWriter"]
    /\ UNCHANGED <<scheme, spans, tracer, entered, svars, mvars>>

StatusUpdate(c) ==
    /\ NoPendingResult
    /\ entered < MaxCalls
    /\ calls[c].pc = "writer"
    /\ \E ctx \in CallerCtxs, obj \in Objs, opts \in Opts :
        Enter(c, calls[c].target, "Update", ctx, NoKey, obj, NoPatch, opts, <<>>)

StatusPatch(c) ==
    /\ NoPendingResult
    /\ entered < MaxCalls
    /\ calls[c].pc = "writer"
    /\ \E ctx \in CallerCtxs, obj \in Objs, patch \in Patches, opts \in Opts :
        Enter(c, calls[c].target, "Patch", ctx, NoKey, obj, patch, opts, <<>>)

\* WrapRuntimeClient accepts any upstream constructor, also one whose client
\* traces already.  Such a delegate, while it runs a call, makes the call it
\* received on the inner tracing client, with the context it was handed.
Forward(c) ==
    /\ FreeSlot(c, "idle")
    /\ \E d \in CallIds :
          /\ calls[d].pc = "indelegate"
          /\ \A e \in CallIds : calls[e].pc = "indelegate" => calls[e].ctx.span # calls[d].sp
          /\ LET a == calls[d].delegated[1] IN
             Enter(c, a.target, a.op, a.ctx, a.key, a.obj, a.patch, a.opts,
                   IF a.target = "Client" /\ a.op = "Get"
                   THEN <<[key |-> "objectKey", value |-> KeyString(a.key)]>>
                   ELSE <<>>)

\* a Finish that is skipped
ReturnPathLeak(sp, err) ==
    LET t == traceError(sp, err) IN [sp |-> t.sp, ret |-> t.err]

\* a Finish that runs before the result is computed
ReturnPathFinishFirst(sp, err) ==
    LET t == traceError(FinishSpan(sp), err) IN [sp |-> t.sp, ret |-> t.err]

\* "return traceError(sp, <delegate result>)" with the deferred sp.Finish():
\* the result is computed, then the span is finished, then the method returns
ReturnPath(sp, err) ==
    LET t == traceError(sp, err) IN [sp |-> FinishSpan(t.sp), ret |-> t.err]

\* a span kept where all invocations share it: the one started last
LocalSpanShared(c) ==
    CHOOSE d \in CallIds :
        /\ calls[d].pc = "indelegate"
        /\ \A e \in CallIds : calls[e].pc = "indelegate" => e <= d

\* the variable sp of a method: local to the invocation
LocalSpan(c) == calls[c].sp

\* the wrapped client returns err and the method runs to its return; a
\* delegate that called back into the tracing client returns only after
\* that inner call did
DelegateReturn(c) ==
    /\ NoPendingResult
    /\ calls[c].pc = "indelegate"
    /\ \A d \in CallIds : calls[d].ctx.span = calls[c].sp => calls[d].pc # "indelegate"
    /\ \E err \in DelegateResults :
          LET p == ReturnPath(spans[LocalSpan(c)], err) IN
          /\ spans' = [spans EXCEPT ![LocalSpan(c)] = p.sp]
          /\ tracer' = [tracer EXCEPT !.finished = @ + (p.sp.finished - spans[LocalSpan(c)].finished)]
          /\ calls' = [calls EXCEPT ![c].pc = "returned", ![c].err = err, ![c].ret = p.ret]
    /\ UNCHANGED <<scheme, entered, svars, mvars>>

\* the caller has used the result; the finished span is with the tracer
Forget(c) ==
    /\ calls[c].pc = "returned"
    /\ calls' = [calls EXCEPT ![c] = IdleCall]
    /\ spans' = [spans EXCEPT ![calls[c].sp] = NoSpanRec]
    /\ UNCHANGED <<scheme, tracer, entered, svars, mvars>>

(***************************************************************************)
(* AddTraceAnnotation                                                      *)
(***************************************************************************)
MaxObjs == 2        \* length of the slice handed to AddTraceAnnotation
MaxMaps == 2        \* maps allocated by the caller before the call
MaxStampRuns == 2   \* calls of AddTraceAnnotation

TraceAnnotationKey == "trace.kubernetes.io/context"
OtherKey == "owner"

\* unstructured.Unstructured is a struct holding one reference, Object, to a
\* map[string]interface{}; NilRef is the nil map.  heap[r] is the map r
\* refers to: whether it has "metadata", whether that has "annotations",
\* and the annotations themselves.
NilRef == 0
EmptyAnn == [k \in {} |-> ""]
AnnMaps == {EmptyAnn,
            (OtherKey :> "alice"),
            (TraceAnnotationKey :> "stale"),
            (OtherKey :> "alice") @@ (TraceAnnotationKey :> "stale")}
MapContents == {[hasMeta |-> FALSE, hasAnn |-> FALSE, ann |-> EmptyAnn],
                [hasMeta |-> TRUE, hasAnn |-> FALSE, ann |-> EmptyAnn]}
               \cup {[hasMeta |-> TRUE, hasAnn |-> TRUE, ann |-> a] : a \in AnnMaps}

\* the spans a caller can pass: their context, and whether the tracer can
\* inject it
StampSpans == {[trace |-> "t1", id |-> "s1", sampled |-> TRUE, injectOK |-> TRUE],
               [trace |-> "t2", id |-> "s2", sampled |-> FALSE, injectOK |-> TRUE],
               [trace |-> "t3", id |-> "s3", sampled |-> TRUE, injectOK |-> FALSE]}
NoStampSpan == [trace |-> "", id |-> "", sampled |-> FALSE, injectOK |-> FALSE]

\* GenerateEmbeddableSpanContext: the context serialized to one string, or
\* the tracer's error
GenerateEmbeddableSpanContext(span) ==
    IF span.injectOK
    THEN [ctx |-> span.trace \o ":" \o span.id \o ":" \o (IF span.sampled THEN "1" ELSE "0"),
          err |-> NilErr]
    ELSE [ctx |-> "", err |-> "encode error"]

\* Unstructured.GetAnnotations: nil unless metadata.annotations exists
GetAnnotations(o, h) ==
    IF o.Object # NilRef /\ h[o.Object].hasMeta /\ h[o.Object].hasAnn
    THEN [isNil |-> FALSE, m |-> h[o.Object].ann]
    ELSE [isNil |-> TRUE, m |-> EmptyAnn]

\* Unstructured.SetAnnotations with a non-nil map, on the receiver o: a nil
\* Object is replaced by a fresh map first; "metadata" is created when
\* missing.  Yields the receiver and the heap afterwards.
SetAnnotations(o, h, a) ==
    LET stamped == [hasMeta |-> TRUE, hasAnn |-> TRUE, ann |-> a] IN
    IF o.Object = NilRef
    THEN [o |-> [o EXCEPT !.Object = Len(h) + 1], h |-> Append(h, stamped)]
    ELSE [o |-> o, h |-> [h EXCEPT ![o.Object] = stamped]]

\* "for _, o := range objs": o is a copy of objs[i]; what the body assigns
\* to o's own fields stays in the copy
RangeWriteBack(s, i, o) == s

\* a stamp that keeps the value of a key that is already there
StampOneKeepFirst(s, h, i, spanContext) ==
    LET o == s[i]
        got == GetAnnotations(o, h)
        a0 == IF got.isNil THEN EmptyAnn ELSE got.m
        a == a0 @@ (TraceAnnotationKey :> spanContext)
        set == SetAnnotations(o, h, a)
    IN [objs |-> RangeWriteBack(s, i, set.o), heap |-> set.h]

\* the loop body for the element at index i
StampOne(s, h, i, spanContext) ==
    LET o == s[i]
        got == GetAnnotations(o, h)
        a0 == IF got.isNil THEN EmptyAnn ELSE got.m
        a == (TraceAnnotationKey :> spanContext) @@ a0
        set == SetAnnotations(o, h, a)
    IN [objs |-> RangeWriteBack(s, i, set.o), heap |-> set.h]

IdleStamp == [pc |-> "idle", span |-> NoStampSpan, spanContext |-> "", i |-> 0,
              ret |-> NilErr, encErr |-> NilErr, encodes0 |-> 0,
              objs0 |-> <<>>, heap0 |-> <<>>, prev |-> ""]

\* the encoded context the call before this one stamped, "" when there was
\* none or it failed
LastStamped ==
    IF stampRuns > 0 /\ stamp.ret = NilErr THEN stamp.spanContext ELSE ""

\* a caller invokes AddTraceAnnotation(objs, span)
AddTraceAnnotation ==
    /\ stamp.pc = "idle"
    /\ stampRuns < MaxStampRuns
    /\ \E span \in StampSpans :
          stamp' = [pc |-> "encode", span |-> span, spanContext |-> "", i |-> 0,
                    ret |-> NilErr, encErr |-> NilErr, encodes0 |-> encodeCalls,
                    objs0 |-> objs, heap0 |-> heap, prev |-> LastStamped]
    /\ UNCHANGED <<objs, heap, encodeCalls, stampRuns, tvars, mvars>>

\* an AddTraceAnnotation that goes on after an encode error
EncodeStepIgnoreErr(st, g) ==
    [st EXCEPT !.pc = "loop", !.spanContext = g.ctx, !.i = 1, !.encErr = g.err]

\* if err != nil { return err }, else on to the loop with spanContext
EncodeStep(st, g) ==
    IF g.err # NilErr
    THEN [st EXCEPT !.pc = "done", !.ret = g.err, !.encErr = g.err]
    ELSE [st EXCEPT !.pc = "loop", !.spanContext = g.ctx, !.i = 1]

\* spanContext, err := GenerateEmbeddableSpanContext(span)
StampEncode ==
    /\ stamp.pc = "encode"
    /\ encodeCalls' = encodeCalls + 1
    /\ stamp' = EncodeStep(stamp, GenerateEmbeddableSpanContext(stamp.span))
    /\ UNCHANGED <<objs, heap, stampRuns, tvars, mvars>>

\* one iteration of the loop, or "return nil" after the last one
StampLoop ==
    /\ stamp.pc = "loop"
    /\ IF stamp.i <= Len(objs)
       THEN LET r == StampOne(objs, heap, stamp.i, stamp.spanContext) IN
            /\ objs' = r.objs
            /\ heap' = r.heap
            /\ stamp' = [stamp EXCEPT !.i = @ + 1]
       ELSE /\ stamp' = [stamp EXCEPT !.pc = "done", !.ret = NilErr]
            /\ UNCHANGED <<objs, heap>>
    /\ UNCHANGED <<encodeCalls, stampRuns, tvars, mvars>>

\* the caller goes on after the call returned
StampReturn ==
    /\ stamp.pc = "done"
    /\ stamp' = [stamp EXCEPT !.pc = "idle"]
    /\ stampRuns' = stampRuns + 1
    /\ UNCHANGED <<objs, heap, encodeCalls, tvars, mvars>>

(***************************************************************************)
(* runMove                                                                 *)
(***************************************************************************)
MaxMoveRuns == 2    \* invocations of the move command

MissingDestination == "please specify a target cluster using the --to-kubeconfig flag"
ClientNewResults == {NilErr, "invalid config"}
MoveResults == {NilErr, "move failed"}

Kubeconfigs == {"", "kubeconfig.yaml"}
Namespaces == {"", "ns1"}
CfgFiles == {"", "clusterctl.yaml"}
MoveOptionsSet == [fromKubeconfig : Kubeconfigs, namespace : Namespaces,
                   toKubeconfig : Kubeconfigs]

IdleMove == [pc |-> "idle", ret |-> NilErr, news0 |-> 0, moves0 |-> 0]

\* the flags of one invocation of the command are parsed into mo
ParseFlags ==
    /\ move.pc = "idle"
    /\ moveRuns < MaxMoveRuns
    /\ mo' \in MoveOptionsSet
    /\ move' = [pc |-> "run", ret |-> NilErr, news0 |-> newCalls, moves0 |-> Len(moveCalls)]
    /\ UNCHANGED <<cfgFile, newCalls, moveCalls, moveRuns, tvars, svars>>

\* a check that looks at the wrong flag
DestinationMissingFrom(opts) == opts.fromKubeconfig = ""

\* the destination check of runMove
DestinationMissing(opts) == opts.toKubeconfig = ""

\* runMove: if mo.toKubeconfig == "" { return errors.New(...) }
runMove ==
    /\ move.pc = "run"
    /\ move' = IF DestinationMissing(mo)
               THEN [move EXCEPT !.pc = "done", !.ret = MissingDestination]
               ELSE [move EXCEPT !.pc = "new"]
    /\ UNCHANGED <<mo, cfgFile, newCalls, moveCalls, moveRuns, tvars, svars>>

\* c, err := client.New(cfgFile); if err != nil { return err }
ClientNew ==
    /\ move.pc = "new"
    /\ newCalls' = newCalls + 1
    /\ \E err \in ClientNewResults :
          move' = IF err # NilErr
                  THEN [move EXCEPT !.pc = "done", !.ret = err]
                  ELSE [move EXCEPT !.pc = "move"]
    /\ UNCHANGED <<mo, cfgFile, moveCalls, moveRuns, tvars, svars>>

\* if err := c.Move(client.MoveOptions{...}); err != nil { return err }; return nil
Move ==
    /\ move.pc = "move"
    /\ moveCalls' = Append(moveCalls, [FromKubeconfig |-> mo.fromKubeconfig,
                                       ToKubeconfig |-> mo.toKubeconfig,
                                       Namespace |-> mo.namespace])
    /\ \E err \in MoveResults : move' = [move EXCEPT !.pc = "done", !.ret = err]
    /\ UNCHANGED <<mo, cfgFile, newCalls, moveRuns, tvars, svars>>

\* the command has returned
MoveExit ==
    /\ move.pc = "done"
    /\ move' = [move EXCEPT !.pc = "idle"]
    /\ moveRuns' = moveRuns + 1
    /\ UNCHANGED <<mo, cfgFile, newCalls, moveCalls, tvars, svars>>

(***************************************************************************)
(* Specifications                                                          *)
(***************************************************************************)
InitClient ==
    /\ scheme \in {"nil", "scheme"}
    /\ calls = [c \in CallIds |-> IdleCall]
    /\ spans = [c \in CallIds |-> NoSpanRec]
    /\ tracer = [started |-> 0, finished |-> 0]
    /\ entered = 0

InitStamp ==
    /\ heap \in [1..MaxMaps -> MapContents]
    /\ objs \in UNION {[1..n -> [Object : 0..MaxMaps]] : n \in 0..MaxObjs}
    /\ stamp = IdleStamp
    /\ encodeCalls = 0
    /\ stampRuns = 0

InitMove ==
    /\ mo \in MoveOptionsSet
    /\ cfgFile \in CfgFiles
    /\ move = IdleMove
    /\ newCalls = 0
    /\ moveCalls = <<>>
    /\ moveRuns = 0

\* the components a specification leaves out stay as constructed
RestClient ==
    /\ scheme = "nil"
    /\ calls = [c \in CallIds |-> IdleCall]
    /\ spans = [c \in CallIds |-> NoSpanRec]
    /\ tracer = [started |-> 0, finished |-> 0]
    /\ entered = 0

RestStamp ==
    /\ heap = <<>>
    /\ objs = <<>>
    /\ stamp = IdleStamp
    /\ encodeCalls = 0
    /\ stampRuns = 0

RestMove ==
    /\ mo = [fromKubeconfig |-> "", namespace |-> "", toKubeconfig |-> ""]
    /\ cfgFile = ""
    /\ move = IdleMove
    /\ newCalls = 0
    /\ moveCalls = <<>>
    /\ moveRuns = 0

Init == InitClient /\ RestStamp /\ RestMove

Next ==
    \/ \E c \in CallIds : Get(c)
    \/ \E c \in CallIds : List(c)
    \/ \E c \in CallIds : Create(c)
    \/ \E c \in CallIds : Delete(c)
    \/ \E c \in CallIds : Update(c)
    \/ \E c \in CallIds : Patch(c)
    \/ \E c \in CallIds : DeleteAllOf(c)
    \/ \E c \in CallIds : Status(c)
    \/ \E c \in CallIds : StatusUpdate(c)
    \/ \E c \in CallIds : StatusPatch(c)
    \/ \E c \in CallIds : Forward(c)
    \/ \E c \in CallIds : DelegateReturn(c)
    \/ \E c \in CallIds : Forget(c)

Spec == Init /\ [][Next]_vars

InitS == RestClient /\ InitStamp /\ RestMove

NextStamp ==
    \/ AddTraceAnnotation
    \/ StampEncode
    \/ StampLoop
    \/ StampReturn

SpecStamp == InitS /\ [][NextStamp]_vars

InitM == RestClient /\ RestStamp /\ InitMove

NextMove ==
    \/ ParseFlags
    \/ runMove
    \/ ClientNew
    \/ Move
    \/ MoveExit

SpecMove == InitM /\ [][NextMove]_vars

(***************************************************************************)
(* Properties of the tracing client                                        *)
(***************************************************************************)
\* invocations between the start of their span and their return
InProgress == {c \in CallIds : calls[c].pc = "indelegate"}
Returned == {c \in CallIds : calls[c].pc = "returned"}
\* invocations that have started their span
Started == InProgress \cup Returned

SpanOf(c) == spans[calls[c].sp]
TagsWithKey(sp, k) == {i \in 1..Len(sp.tags) : sp.tags[i].key = k}
LogsWithKey(sp, k) == {i \in 1..Len(sp.logs) : sp.logs[i].key = k}
IsBlankCall(r) == r.target = "Client" /\ r.op \in BlankOps
IsPatchCall(r) == r.op \in PatchOps

\* C1: every invocation starts exactly one span and has finished it exactly
\* once when it returns, on every outcome; no call has returned with its span
\* unfinished, no span is finished twice, and no span is finished early.
C1_OneSpanStartedAndFinished ==
    /\ tracer.started = entered
    /\ tracer.finished = entered - Cardinality(InProgress)
    /\ \A c \in Returned : SpanOf(c).name # "" /\ SpanOf(c).finished = 1
    /\ \A c \in InProgress : SpanOf(c).name # "" /\ SpanOf(c).finished = 0
    /\ \A c \in CallIds : spans[c].finished <= 1 /\ spans[c].late = 0

\* a Patch whose payload does not serialize and whose delegate fails has returned
C1_Witness ==
    \E c \in Returned :
        /\ calls[c].op = "Patch" /\ ~calls[c].patch.dataOK
        /\ calls[c].err = "conflict"
        /\ SpanOf(c).finished = 1

\* C2: the value a decorated method returns is the value the wrapped client
\* returned: nil for nil, the same error otherwise.
C2_ReturnsDelegateResult ==
    \A c \in Returned : calls[c].ret = calls[c].err

\* a status update returned the delegate's error
C2_Witness ==
    \E c \in Returned :
        /\ calls[c].target = "StatusWriter" /\ calls[c].op = "Update"
        /\ calls[c].err = "conflict" /\ calls[c].ret = "conflict"

\* C3: the finished span has the error flag and a log entry holding the
\* delegate's error exactly when the delegate failed.
C3_ErrorRecordedIffDelegateFailed ==
    \A c \in Returned :
        LET sp == SpanOf(c)
            errLogs == LogsWithKey(sp, "error")
        IN IF calls[c].err # NilErr
           THEN /\ sp.error
                /\ errLogs # {}
                /\ \A i \in errLogs : sp.logs[i].value = calls[c].err
           ELSE ~sp.error /\ errLogs = {}

\* Create against a delegate that returns "conflict"
C3_Witness ==
    \E c \in Returned :
        /\ calls[c].op = "Create" /\ calls[c].err = "conflict"
        /\ SpanOf(c).error
        /\ [key |-> "error", value |-> "conflict"] \in {SpanOf(c).logs[i] : i \in 1..Len(SpanOf(c).logs)}

\* C4: an invocation calls the corresponding method of the wrapped client
\* exactly once, with the key, object, patch and options it was given.
C4_DelegatesOnceUnchanged ==
    /\ \A c \in Started :
          LET r == calls[c] IN
          /\ Len(r.delegated) = 1
          /\ r.delegated[1].target = r.target
          /\ r.delegated[1].op = r.op
          /\ r.delegated[1].key = r.key
          /\ r.delegated[1].obj = r.obj
          /\ r.delegated[1].patch = r.patch
          /\ r.delegated[1].opts = r.opts
    /\ \A c \in CallIds \ Started : calls[c].delegated = <<>>

\* a Delete with options whose delegate failed has returned
C4_Witness ==
    \E c \in Returned :
        /\ calls[c].op = "Delete" /\ calls[c].opts # <<>>
        /\ calls[c].err = "conflict"
        /\ Len(calls[c].delegated) = 1

\* the registry yields no kind for the object of r
NoCandidateKinds(r) == scheme = "nil" \/ ObjectKinds(r.obj) = <<>>

\* C5: Get, List and DeleteAllOf on an object the registry has no kind for
\* (or without a registry) still call the delegate and return its result, and
\* the span carries no objectKind tag.
C5_NoKindNoTag ==
    \A c \in Started :
        (IsBlankCall(calls[c]) /\ NoCandidateKinds(calls[c]))
        => /\ TagsWithKey(SpanOf(c), "objectKind") = {}
           /\ c \in Returned =>
                 /\ Len(calls[c].delegated) = 1
                 /\ calls[c].ret = calls[c].err

\* DeleteAllOf on a type the scheme does not know
C5_Witness ==
    \E c \in Returned :
        /\ calls[c].op = "DeleteAllOf" /\ calls[c].obj = UnknownObj
        /\ scheme = "scheme"
        /\ calls[c].ret = NilErr

\* C6: Patch and Status.Patch log the serialized payload once when
\* serializing succeeds; when it fails there is no patch log entry, the
\* delegate's Patch is still called and its result is what the caller gets.
C6_PatchLogBestEffort ==
    \A c \in Started :
        IsPatchCall(calls[c]) =>
            LET sp == SpanOf(c)
                patchLogs == LogsWithKey(sp, "patch")
            IN /\ IF calls[c].patch.dataOK
                  THEN /\ Cardinality(patchLogs) = 1
                       /\ \A i \in patchLogs : sp.logs[i].value = calls[c].patch.data
                  ELSE patchLogs = {}
               /\ c \in Returned =>
                     /\ Len(calls[c].delegated) = 1
                     /\ calls[c].delegated[1].op = "Patch"
                     /\ calls[c].delegated[1].patch = calls[c].patch
                     /\ calls[c].ret = calls[c].err

\* a status patch whose payload does not serialize, delegate failing
C6_Witness ==
    \E c \in Returned :
        /\ calls[c].target = "StatusWriter" /\ calls[c].op = "Patch"
        /\ ~calls[c].patch.dataOK
        /\ calls[c].ret = "conflict"

\* the tags of a span as the mapping from tag key to value the tracer
\* keeps: a later SetTag of a key replaces the earlier value
TagKeys(sp) == {sp.tags[i].key : i \in 1..Len(sp.tags)}
TagValue(sp, k) ==
    LET last == CHOOSE i \in TagsWithKey(sp, k) : \A j \in TagsWithKey(sp, k) : j <= i
    IN sp.tags[last].value
TagValues(sp) == {TagValue(sp, k) : k \in TagKeys(sp)}

\* C11: a Get with key k whose delegate succeeds ends with a finished span
\* tagged objectKey = "<namespace>/<name>" of k and without the error flag,
\* and returns the delegate's nil.
C11_GetSuccessTagsKey ==
    \A c \in Returned :
        (calls[c].target = "Client" /\ calls[c].op = "Get" /\ calls[c].err = NilErr)
        => LET sp == SpanOf(c) IN
           /\ sp.name = "k8s.Get"
           /\ Cardinality(TagsWithKey(sp, "objectKey")) = 1
           /\ TagValue(sp, "objectKey") = calls[c].key.ns \o "/" \o calls[c].key.name
           /\ calls[c].key = [ns |-> "ns1", name |-> "name1"]
                 => TagValue(sp, "objectKey") = "ns1/name1"
           /\ ~sp.error
           /\ sp.finished = 1
           /\ calls[c].ret = NilErr

\* Get(key = ns1/name1) returned nil
C11_Witness ==
    \E c \in Returned :
        /\ calls[c].op = "Get" /\ calls[c].err = NilErr
        /\ calls[c].key = [ns |-> "ns1", name |-> "name1"]
        /\ "objectKey" \in TagKeys(SpanOf(c))
        /\ TagValue(SpanOf(c), "objectKey") = "ns1/name1"

\* C12: when the registry yields one or more candidate kinds for the object
\* of a Get, List or DeleteAllOf, every candidate kind is among the values of
\* the finished span's tags, the tags being a mapping from key to value.
C12_EveryCandidateKindTagged ==
    \A c \in Returned :
        (IsBlankCall(calls[c]) /\ scheme # "nil")
        => \A i \in 1..Len(ObjectKinds(calls[c].obj)) :
               GvkString(ObjectKinds(calls[c].obj)[i]) \in TagValues(SpanOf(c))

\* C13 (as stated): the context handed to the delegate is the caller's
\* context, unchanged.
C13_DelegateGetsCallerContext ==
    \A c \in Started :
        \A i \in 1..Len(calls[c].delegated) :
            calls[c].delegated[i].ctx = calls[c].ctx

\* C13 (amended): the context handed to the delegate is the one
\* StartSpanFromContext derived from the caller's context: it carries the
\* invocation's own span and has the caller's deadline and cancellation state
\* unchanged; the decorator installs no timeout or cancellation of its own.
C13_DelegateGetsDerivedContext ==
    \A c \in Started :
        \A i \in 1..Len(calls[c].delegated) :
            LET d == calls[c].delegated[i].ctx IN
            /\ d.deadline = calls[c].ctx.deadline
            /\ d.span = calls[c].sp
            /\ d.span # calls[c].ctx.span
            /\ d = [calls[c].ctx EXCEPT !.span = calls[c].sp]

\* a call made with a context that has a deadline reached its delegate
C13_Witness ==
    \E c \in Started :
        /\ calls[c].ctx.deadline = "d1"
        /\ Len(calls[c].delegated) = 1
        /\ calls[c].delegated[1].ctx.deadline = "d1"
        /\ calls[c].delegated[1].ctx.span = calls[c].sp


\* C14: the span of an invocation is a child of the span carried by the
\* caller's context and a root span when that context carries none; a call
\* made from inside the delegate with the context the delegate was handed is
\* nested under the outer call's span; two calls on span-less contexts get
\* two distinct root spans, neither the parent of the other.
C14_SpanParentFromContext ==
    /\ \A c \in Started : SpanOf(c).parent = calls[c].ctx.span
    /\ \A c \in Started : \A d \in InProgress :
           (c # d /\ calls[c].ctx = calls[d].delegated[1].ctx)
           => SpanOf(c).parent = calls[d].sp
    /\ \A c \in Started : \A d \in Started :
           (c # d /\ calls[c].ctx.span = NoSpan /\ calls[d].ctx.span = NoSpan)
           => /\ calls[c].sp # calls[d].sp
              /\ SpanOf(c).parent = NoSpan /\ SpanOf(d).parent = NoSpan

\* an inner call made with the outer delegate's context has returned while
\* the outer call is still in its delegate
C14_Witness ==
    \E c \in Returned : \E d \in InProgress :
        /\ calls[c].ctx = calls[d].delegated[1].ctx
        /\ SpanOf(c).parent = calls[d].sp
        /\ SpanOf(d).parent = NoSpan

\* two calls on span-less contexts are in flight together
C14_WitnessRoots ==
    \E c \in Started : \E d \in Started :
        c # d /\ calls[c].ctx.span = NoSpan /\ calls[d].ctx.span = NoSpan


\* what one invocation may have put on its span: its own name, its own key
\* and object identity, its own patch data, its own delegate error
OwnSpanOnly(c) ==
    LET r == calls[c]
        sp == SpanOf(c)
    IN /\ sp.name = (IF r.target = "StatusWriter" THEN "k8s.Status." ELSE "k8s.") \o r.op
       /\ \A i \in 1..Len(sp.tags) :
             \/ /\ sp.tags[i].key = "objectKey"
                /\ sp.tags[i].value \in {r.key.ns \o "/" \o r.key.name,
                                         r.obj.ns \o "/" \o r.obj.name}
             \/ /\ sp.tags[i].key = "objectKind"
                /\ sp.tags[i].value \in
                      {GvkString(r.obj.gvk)} \cup
                      {GvkString(ObjectKinds(r.obj)[j]) : j \in 1..Len(ObjectKinds(r.obj))}
       /\ \A i \in 1..Len(sp.logs) :
             \/ sp.logs[i].key = "patch" /\ sp.logs[i].value = r.patch.data
             \/ sp.logs[i].key = "error" /\ sp.logs[i].value = r.err /\ r.pc = "returned"
       /\ r.pc = "indelegate" => (~sp.error /\ sp.finished = 0)
       /\ r.pc = "returned" =>
             /\ sp.error <=> r.err # NilErr
             /\ sp.finished = 1
             /\ r.ret = r.err

\* C15: with calls in flight together, each invocation has a span of its own,
\* what an invocation records is on its own span only, each caller gets the
\* result of its own delegate call, and the decorator writes no state shared
\* between invocations: the registry it was built with stays the same.
C15_InvocationsIndependent ==
    /\ [](/\ \A c \in Started : OwnSpanOnly(c)
          /\ \A c \in Started : \A d \in Started : c # d => calls[c].sp # calls[d].sp
          /\ \A c \in CallIds : calls[c].pc \in {"idle", "writer"} => spans[c] = NoSpanRec)
    /\ [][scheme' = scheme]_vars

\* one call has returned an error while another, on an independent context,
\* is still in its delegate
C15_Witness ==
    \E c \in Returned : \E d \in InProgress :
        /\ calls[c].err # NilErr
        /\ calls[d].ctx.span = NoSpan /\ calls[c].ctx.span = NoSpan
        /\ SpanOf(c).error /\ ~SpanOf(d).error
        /\ calls[c].op # calls[d].op


\* C16: Status() starts no span and makes no delegate write; it returns a
\* writer around the delegate's status writer; every Update and Patch through
\* that writer reaches the delegate's status writer exactly once, with the
\* caller's object, patch and options, under a span of its own named
\* k8s.Status.Update or k8s.Status.Patch.
C16_StatusWriterInstrumented ==
    /\ \A c \in CallIds :
          calls[c].pc = "writer"
          => /\ calls[c].target = "StatusWriter"
             /\ calls[c].sp = NoSpan
             /\ spans[c] = NoSpanRec
             /\ calls[c].delegated = <<>>
    /\ tracer.started = entered
    /\ \A c \in Started :
          calls[c].target = "StatusWriter"
          => /\ calls[c].op \in {"Update", "Patch"}
             /\ SpanOf(c).name = "k8s.Status." \o calls[c].op
             /\ Len(calls[c].delegated) = 1
             /\ LET a == calls[c].delegated[1] IN
                /\ a.target = "StatusWriter" /\ a.op = calls[c].op
                /\ a.obj = calls[c].obj /\ a.patch = calls[c].patch
                /\ a.opts = calls[c].opts

\* a Patch through the writer returned by Status() has returned
C16_Witness ==
    \E c \in Returned :
        /\ calls[c].target = "StatusWriter" /\ calls[c].op = "Patch"
        /\ SpanOf(c).name = "k8s.Status.Patch"
        /\ Len(calls[c].delegated) = 1

\* Status() has returned its writer and no write was made through it yet
C16_WitnessWriter ==
    \E c \in CallIds : calls[c].pc = "writer" /\ tracer.started = 0


\* the methods that take the object itself
IsObjectCall(r) == ~IsBlankCall(r)

\* C17 (as stated): for Create, Update, Patch, Delete, Status.Update and
\* Status.Patch the span carries an objectKind tag if and only if the object
\* declares a non-empty kind.
C17_KindTagIffKindDeclared ==
    \A c \in Started :
        IsObjectCall(calls[c])
        => (TagsWithKey(SpanOf(c), "objectKind") # {} <=> calls[c].obj.gvk.kind # "")

\* C17 (amended): for those methods the span carries an objectKind tag if
\* and only if the object's declared group, version and kind are not all
\* empty, and an objectKey tag "<namespace>/<name>" if and only if the
\* object's metadata is accessible; a missing kind or missing metadata leaves
\* out that tag only and the delegate is called all the same.
C17_ObjectTagsWhenAvailable ==
    \A c \in Started :
        IsObjectCall(calls[c])
        => LET sp == SpanOf(c)
               o == calls[c].obj
               declared == o.gvk.group # "" \/ o.gvk.version # "" \/ o.gvk.kind # ""
           IN /\ TagsWithKey(sp, "objectKind") # {} <=> declared
              /\ declared => TagValue(sp, "objectKind") = GvkString(o.gvk)
              /\ TagsWithKey(sp, "objectKey") # {} <=> o.metaOK
              /\ o.metaOK => TagValue(sp, "objectKey") = o.ns \o "/" \o o.name
              /\ TagKeys(sp) \subseteq {"objectKind", "objectKey"}
              /\ Len(calls[c].delegated) = 1

\* an object with an apiVersion, no kind and no accessible metadata went
\* through Create, and an object with neither kind nor version through Update
C17_Witness ==
    /\ \E c \in Started :
          /\ calls[c].target = "Client" /\ calls[c].op = "Create"
          /\ calls[c].obj = StatusObj
          /\ TagKeys(SpanOf(c)) = {"objectKind"}
    /\ \E c \in Started :
          /\ calls[c].target = "Client" /\ calls[c].op = "Update"
          /\ calls[c].obj = UnknownObj
          /\ TagKeys(SpanOf(c)) = {"objectKey"}


\* C18 (as stated): Get and DeleteAllOf both tag their span with the string
\* form of the lookup key.
C18_GetAndDeleteAllOfTagKey ==
    \A c \in Started :
        (calls[c].target = "Client" /\ calls[c].op \in {"Get", "DeleteAllOf"})
        => /\ "objectKey" \in TagKeys(SpanOf(c))
           /\ TagValue(SpanOf(c), "objectKey") = calls[c].key.ns \o "/" \o calls[c].key.name

\* C18 (amended): Get tags its span with the string form of the lookup key;
\* DeleteAllOf takes no lookup key and its span carries no objectKey tag.
C18_OnlyGetTagsKey ==
    \A c \in Started :
        /\ (calls[c].target = "Client" /\ calls[c].op = "Get")
           => /\ "objectKey" \in TagKeys(SpanOf(c))
              /\ TagValue(SpanOf(c), "objectKey") = calls[c].key.ns \o "/" \o calls[c].key.name
              /\ calls[c].delegated[1].key = calls[c].key
        /\ (calls[c].target = "Client" /\ calls[c].op = "DeleteAllOf")
           => /\ "objectKey" \notin TagKeys(SpanOf(c))
              /\ calls[c].key = NoKey
              /\ calls[c].delegated[1].key = NoKey

\* a DeleteAllOf of an object with accessible metadata has returned, and so
\* has a Get
C18_Witness ==
    /\ \E c \in Started :
          /\ calls[c].target = "Client" /\ calls[c].op = "DeleteAllOf"
          /\ calls[c].obj.metaOK
          /\ "objectKey" \notin TagKeys(SpanOf(c))
    /\ \E c \in Started :
          /\ calls[c].target = "Client" /\ calls[c].op = "Get"
          /\ "objectKey" \in TagKeys(SpanOf(c))


\* the span of c was written to after its Finish
WrittenAfterFinish(c) == SpanOf(c).late > 0

\* C19: within one invocation the span is started, then the identifying tags
\* (and, for the patch methods, the patch log) are set, then the delegate is
\* called, then on failure the error flag and error log are recorded, then
\* the span is finished, then the method returns.  The delegate is never
\* called before the span is started, nothing is recorded on a span after its
\* finish, and the identity tags are on the span when the delegate fails.
C19_OrderWithinInvocation ==
    /\ [](/\ \A c \in CallIds :
               calls[c].pc \in {"idle", "writer"}
               => calls[c].delegated = <<>> /\ spans[c].name = ""
          /\ \A c \in InProgress :
               /\ SpanOf(c).name # ""
               /\ SpanOf(c).finished = 0
               /\ ~SpanOf(c).error /\ LogsWithKey(SpanOf(c), "error") = {}
               /\ Len(calls[c].delegated) = 1
               /\ calls[c].delegated[1].ctx.span = calls[c].sp
          /\ \A c \in Returned :
               /\ SpanOf(c).finished = 1
               /\ ~WrittenAfterFinish(c))
    /\ [][\A c \in CallIds :
            /\ (calls[c].pc = "indelegate" /\ calls'[c].pc = "returned")
               => /\ spans'[c].tags = spans[c].tags
                  /\ \A i \in 1..Len(spans[c].logs) : spans'[c].logs[i] = spans[c].logs[i]
                  /\ calls'[c].delegated = calls[c].delegated
                  /\ calls'[c].err # NilErr
                     => /\ spans'[c].error
                        /\ LogsWithKey(spans'[c], "error") # {}
                        /\ (calls[c].target = "Client" /\ calls[c].op = "Get")
                              => TagsWithKey(spans'[c], "objectKey") # {}
                        /\ (IsObjectCall(calls[c]) /\ calls[c].obj.metaOK)
                              => TagsWithKey(spans'[c], "objectKey") # {}
            /\ (calls[c].pc \in {"idle", "writer"} /\ calls'[c].pc = "indelegate")
               => /\ spans[c] = NoSpanRec
                  /\ spans'[c].name # ""
                  /\ Len(calls'[c].delegated) = 1
       ]_vars

\* a Patch whose delegate failed has returned: its span holds the object's
\* tags, the patch log before the error log, and was finished once
C19_Witness ==
    \E c \in Returned :
        /\ calls[c].op = "Patch" /\ calls[c].err # NilErr
        /\ calls[c].obj = ClusterObj /\ calls[c].patch.dataOK
        /\ TagKeys(SpanOf(c)) = {"objectKind", "objectKey"}
        /\ Len(SpanOf(c).logs) = 2
        /\ SpanOf(c).logs[1].key = "patch" /\ SpanOf(c).logs[2].key = "error"
        /\ SpanOf(c).error /\ SpanOf(c).finished = 1


(***************************************************************************)
(* Properties of AddTraceAnnotation                                        *)
(***************************************************************************)
\* the annotations the caller reads from element i of a slice
Annotations(s, h, i) == GetAnnotations(s[i], h)
HasKey(a, k) == ~a.isNil /\ k \in DOMAIN a.m
StampSucceeded == stamp.pc = "done" /\ stamp.ret = NilErr

\* C7: after a successful AddTraceAnnotation every object of the caller's
\* slice has the trace annotation set to the one encoded context, every other
\* annotation is as before, and the slice has the same elements in the same order.
C7_AllStampedOthersKept ==
    StampSucceeded =>
        /\ objs = stamp.objs0
        /\ \A i \in 1..Len(objs) :
              LET now == Annotations(objs, heap, i)
                  was == Annotations(stamp.objs0, stamp.heap0, i)
              IN /\ HasKey(now, TraceAnnotationKey)
                 /\ now.m[TraceAnnotationKey] = stamp.spanContext
                 /\ \A k \in DOMAIN was.m \ {TraceAnnotationKey} :
                       HasKey(now, k) /\ now.m[k] = was.m[k]

\* C8: an object without annotations when the call starts has, after the
\* call, annotations holding exactly the trace annotation; also when the
\* object's content is nil.
C8_AbsentMappingGetsExactlyTraceKey ==
    StampSucceeded =>
        \A i \in 1..Len(objs) :
            Annotations(stamp.objs0, stamp.heap0, i).isNil
            => Annotations(objs, heap, i) =
                  [isNil |-> FALSE, m |-> (TraceAnnotationKey :> stamp.spanContext)]

\* C9: AddTraceAnnotation encodes once per call; when encoding fails it
\* returns the encode error and leaves every object as it was; it returns nil
\* only when encoding succeeded.
C9_EncodeErrorAbortsUntouched ==
    /\ stamp.pc \in {"loop", "done"} => encodeCalls = stamp.encodes0 + 1
    /\ stamp.pc = "done" =>
          /\ ~stamp.span.injectOK =>
                /\ stamp.ret # NilErr
                /\ stamp.ret = stamp.encErr
                /\ objs = stamp.objs0
                /\ heap = stamp.heap0
          /\ stamp.ret = NilErr => stamp.span.injectOK /\ stamp.encErr = NilErr

\* encoding failed for a slice with an object in it
C9_Witness ==
    /\ stamp.pc = "done"
    /\ ~stamp.span.injectOK
    /\ stamp.ret = "encode error"
    /\ Len(objs) >= 1

(***************************************************************************)
(* Properties of runMove                                                   *)
(***************************************************************************)
\* C10: runMove with an empty destination returns the missing-destination
\* error at once: client.New and Move are not called.
C10_MissingDestinationFailsFirst ==
    (move.pc # "idle" /\ mo.toKubeconfig = "") =>
        /\ move.pc \in {"run", "done"}
        /\ newCalls = move.news0
        /\ Len(moveCalls) = move.moves0
        /\ move.pc = "done" => move.ret = MissingDestination

\* a run with a source but no destination has failed
C10_Witness ==
    /\ move.pc = "done"
    /\ mo.toKubeconfig = ""
    /\ mo.fromKubeconfig # ""
    /\ move.ret = MissingDestination

\* C20: AddTraceAnnotation is idempotent and last-writer-wins on the reserved
\* key.  A second call with the same span leaves every object as the first
\* call left it; an object that occurs more than once in the sequence ends as
\* if it occurred once, with its annotations plus the reserved key; a second
\* call with a different span replaces the reserved key's value by the new
\* encoding and adds no other key.
C20_IdempotentLastWriterWins ==
    StampSucceeded =>
        /\ stamp.prev = stamp.spanContext
           => /\ objs = stamp.objs0
              /\ \A i \in 1..Len(objs) :
                    Annotations(objs, heap, i) = Annotations(stamp.objs0, stamp.heap0, i)
        /\ \A i \in 1..Len(objs) :
              LET was == Annotations(stamp.objs0, stamp.heap0, i)
                  now == Annotations(objs, heap, i)
              IN objs[i].Object # NilRef
                 => /\ ~now.isNil
                    /\ DOMAIN now.m = (IF was.isNil THEN {} ELSE DOMAIN was.m)
                                         \cup {TraceAnnotationKey}
                    /\ now.m[TraceAnnotationKey] = stamp.spanContext
                    /\ \A k \in DOMAIN now.m \ {TraceAnnotationKey} : now.m[k] = was.m[k]
        /\ (stamp.prev # "" /\ stamp.prev # stamp.spanContext)
           => \A i \in 1..Len(objs) :
                 LET was == Annotations(stamp.objs0, stamp.heap0, i)
                     now == Annotations(objs, heap, i)
                 IN HasKey(was, TraceAnnotationKey)
                    => /\ was.m[TraceAnnotationKey] = stamp.prev
                       /\ now.m[TraceAnnotationKey] = stamp.spanContext
                       /\ DOMAIN now.m = DOMAIN was.m

\* a second call with the same span has succeeded on a sequence that holds
\* one object twice, next to another annotation
C20_Witness ==
    /\ StampSucceeded
    /\ stamp.prev = stamp.spanContext
    /\ Len(objs) = 2
    /\ objs[1].Object = objs[2].Object /\ objs[1].Object # NilRef
    /\ DOMAIN Annotations(objs, heap, 1).m = {OtherKey, TraceAnnotationKey}

\* a second call with a different span has succeeded and replaced the value
C20_WitnessRestamp ==
    /\ StampSucceeded
    /\ stamp.prev # "" /\ stamp.prev # stamp.spanContext
    /\ \E i \in 1..Len(objs) :
          /\ HasKey(Annotations(stamp.objs0, stamp.heap0, i), TraceAnnotationKey)
          /\ Annotations(objs, heap, i).m[TraceAnnotationKey] = stamp.spanContext


====
